---- MODULE Spec2Model ----
(***************************************************************************)
(* Model of scripts/performance_comparison.py: the Python-vs-Rust LinkML   *)
(* timing harness.  A process p is one execution of the script (or, in     *)
(* SpecConc, one invocation of benchmark_rust_linkml); the two temporary   *)
(* files /tmp/test_schema.yaml and /tmp/test_data.json and the build tree   *)
(* holding the linkml-cli binary are shared by all processes.              *)
(*                                                                         *)
(* time.time() is the wall clock: a read may return less than an earlier   *)
(* read, so every read is drawn freely from Clock (whole seconds).         *)
(***************************************************************************)
EXTENDS Integers, Sequences, FiniteSets

\* ---------------------------------------------------------------- bounds
MaxClock == 2          \* time.time() reads range over 0..MaxClock seconds
MaxMs == 10            \* largest duration handed to print_comparison in SpecCmp

Clock == 0..MaxClock
DurVals == (-2)..MaxMs

\* ------------------------------------------------------------- constants
Procs == {"A", "B"}
MainProc == "A"
Workloads == {1, 2}    \* 1 = simple (SIMPLE_SCHEMA), 2 = medium (MEDIUM_SCHEMA)
ErrBinaryNotFound == 404   \* stands for the string 'Binary not found'

CandidatePaths ==
  << "./target/release/linkml-cli",
     "./target/debug/linkml-cli",
     "../../../target/release/linkml-cli",
     "../../../target/debug/linkml-cli" >>

PathSet == {CandidatePaths[i] : i \in 1..Len(CandidatePaths)}

\* what the filesystem holds at a candidate path
Status == {"absent", "noexec", "exec"}

metrics == << "parse_ms", "schema_view_ms", "validate_ms" >>

EmptyDict == [k \in {} |-> 0]
\* A file on disk: who wrote it last, what it holds, and which processes
\* still hold it open for writing.  The text of the simple workload (schema
\* or data) is shorter than that of the medium one, so writing it from
\* offset 0 over medium text leaves a medium tail: "mixed".
NoFile == [writer |-> "nobody", content |-> "none", open_by |-> {}]
Content(w) == IF w = 1 THEN "simple" ELSE "medium"

\* open(path, 'w'): creates the file, or truncates the existing one
Truncate(f, p) ==
  IF f = NoFile
    THEN [writer |-> p, content |-> "empty", open_by |-> {p}]
    ELSE [writer |-> p, content |-> "empty", open_by |-> f.open_by \cup {p}]

\* the buffered text reaching the file when the with block closes it: it is
\* written from offset 0 into the file p opened; when that file has been
\* unlinked since, the path is not affected
Flush(f, p, w) ==
  IF p \in f.open_by
    THEN [writer |-> p,
          content |-> IF w = 1 /\ f.content \in {"medium", "mixed"}
                        THEN "mixed" ELSE Content(w),
          open_by |-> f.open_by \ {p}]
    ELSE f

\* what a reader of the path finds
Seen(f) == [writer |-> f.writer, content |-> f.content]
Unread == [writer |-> "unread", content |-> "unread"]
NoRead == [schema |-> Unread, data |-> Unread]

VARIABLES
  pc,           \* position of each process in the script
  wl,           \* workload each process is benchmarking
  py_results,   \* dict returned by benchmark_python_linkml
  rs_results,   \* dict returned by benchmark_rust_linkml
  cli_path,     \* path chosen by the binary lookup, "None" when none
  outcome,      \* how the last subprocess.run ended
  sub_read,     \* what the last child found at each path when it opened it
  rs_start,     \* start = time.time() taken before subprocess.run
  launches,     \* subprocess.run calls made for the current workload
  schema_file,  \* /tmp/test_schema.yaml
  data_file,    \* /tmp/test_data.json
  rows,         \* rows printed by the last print_comparison
  tables,       \* workloads whose comparison table has been printed
  fault,        \* where an uncaught exception left the script, "none" if none
  mt,           \* how the last measure_time call ended
  bins          \* the build tree: status of every candidate path

vars == << pc, wl, py_results, rs_results, cli_path, outcome, sub_read,
           rs_start, launches, schema_file, data_file, rows, tables, fault, mt, bins >>

\* ------------------------------------------------------------ pure parts

\* dict.get(key, -1)
Get(d, key) == IF key \in DOMAIN d THEN d[key] ELSE -1

\* d[key] = value on a dict
Put(d, key, value) ==
  [k \in (DOMAIN d) \cup {key} |-> IF k = key THEN value ELSE d[k]]

\* measure_time: two clock reads around the call; no handler around the call,
\* so a raising func leaves measure_time with the exception
measure_time(start, end, raises) ==
  [raised |-> raises, ms |-> (end - start) * 1000]

RECURSIVE GCD(_, _)
GCD(a, b) == IF b = 0 THEN a ELSE GCD(b, a % b)

\* py_time / rs_time as an exact fraction in lowest terms <<num, den>>
Speedup(py_time, rs_time) ==
  LET g == GCD(py_time, rs_time)
  IN  << py_time \div g, rs_time \div g >>

Min(S) == CHOOSE x \in S : \A y \in S : x <= y

\* the for/if os.path.exists/break loop over the candidate list
FindCli(b) ==
  LET hits == {i \in 1..Len(CandidatePaths) : b[CandidatePaths[i]] # "absent"}
  IN  IF hits = {} THEN "None" ELSE CandidatePaths[Min(hits)]

\* the try block around subprocess.run
RsValidateMs(oc, start, end) ==
  IF oc = "exit0" THEN (end - start) * 1000 ELSE -1

ComparisonRow_mut(key, py_time, rs_time) ==
  IF py_time >= 0 /\ rs_time > 0
    THEN << [key |-> key, python |-> <<py_time>>, rust |-> <<rs_time>>,
             speedup |-> Speedup(py_time, rs_time)] >>
  ELSE IF py_time > 0
    THEN << [key |-> key, python |-> <<py_time>>, rust |-> <<>>,
             speedup |-> <<>>] >>
  ELSE IF rs_time > 0
    THEN << [key |-> key, python |-> <<>>, rust |-> <<rs_time>>,
             speedup |-> <<>>] >>
  ELSE <<>>

\* one pass of the loop body of print_comparison: the line printed for a
\* metric (an empty python/rust field is the text N/A), or nothing
ComparisonRow(key, py_time, rs_time) ==
  IF py_time > 0 /\ rs_time > 0
    THEN << [key |-> key, python |-> <<py_time>>, rust |-> <<rs_time>>,
             speedup |-> Speedup(py_time, rs_time)] >>
  ELSE IF py_time > 0
    THEN << [key |-> key, python |-> <<py_time>>, rust |-> <<>>,
             speedup |-> <<>>] >>
  ELSE IF rs_time > 0
    THEN << [key |-> key, python |-> <<>>, rust |-> <<rs_time>>,
             speedup |-> <<>>] >>
  ELSE <<>>

RECURSIVE PrintRows(_, _, _)
PrintRows(i, py, rs) ==
  IF i > Len(metrics) THEN <<>>
  ELSE ComparisonRow(metrics[i], Get(py, metrics[i]), Get(rs, metrics[i]))
         \o PrintRows(i + 1, py, rs)

\* ------------------------------------------------------- initial states

\* build trees with at most one candidate present
BinsSingle ==
  {b \in [PathSet -> Status] :
     Cardinality({q \in PathSet : b[q] # "absent"}) <= 1}

InitCommon ==
  /\ cli_path = [p \in Procs |-> "None"]
  /\ outcome = [p \in Procs |-> "none"]
  /\ sub_read = [p \in Procs |-> NoRead]
  /\ rs_start = [p \in Procs |-> 0]
  /\ launches = [p \in Procs |-> 0]
  /\ rows = [p \in Procs |-> <<>>]
  /\ tables = [p \in Procs |-> <<>>]
  /\ fault = [p \in Procs |-> "none"]
  /\ mt = [p \in Procs |-> "none"]

\* one run of the script, about to call benchmark_python_linkml(SIMPLE_SCHEMA..)
Init ==
  /\ InitCommon
  /\ pc = [p \in Procs |-> IF p = MainProc THEN "py_parse" ELSE "idle"]
  /\ wl = [p \in Procs |-> 1]
  /\ py_results = [p \in Procs |-> EmptyDict]
  /\ rs_results = [p \in Procs |-> EmptyDict]
  /\ schema_file = NoFile
  /\ data_file = NoFile
  /\ bins \in BinsSingle

\* ------------------------------------------------------------- actions

Abort(p, site) ==
  /\ pc' = [pc EXCEPT ![p] = "aborted"]
  /\ fault' = [fault EXCEPT ![p] = site]

\* parse_time, schema = measure_time(yaml_loader.load, ...)
PyParse(p) ==
  /\ pc[p] = "py_parse"
  /\ \E start \in Clock, end \in Clock, raises \in BOOLEAN :
       LET m == measure_time(start, end, raises) IN
       IF m.raised
         THEN /\ mt' = [mt EXCEPT ![p] = "raised"]
              /\ Abort(p, "parse")
              /\ UNCHANGED py_results
         ELSE /\ mt' = [mt EXCEPT ![p] = "returned"]
              /\ py_results' = [py_results EXCEPT ![p] = Put(EmptyDict, "parse_ms", m.ms)]
              /\ pc' = [pc EXCEPT ![p] = "py_view"]
              /\ UNCHANGED fault
  /\ UNCHANGED << wl, rs_results, cli_path, outcome, sub_read, rs_start, launches,
                  schema_file, data_file, rows, tables, bins >>

\* view_time, schema_view = measure_time(SchemaView, schema)
PySchemaView(p) ==
  /\ pc[p] = "py_view"
  /\ \E start \in Clock, end \in Clock, raises \in BOOLEAN :
       LET m == measure_time(start, end, raises) IN
       IF m.raised
         THEN /\ mt' = [mt EXCEPT ![p] = "raised"]
              /\ Abort(p, "schema_view")
              /\ UNCHANGED py_results
         ELSE /\ mt' = [mt EXCEPT ![p] = "returned"]
              /\ py_results' = [py_results EXCEPT ![p] = Put(@, "schema_view_ms", m.ms)]
              /\ pc' = [pc EXCEPT ![p] = "py_view_done"]
              /\ UNCHANGED fault
  /\ UNCHANGED << wl, rs_results, cli_path, outcome, sub_read, rs_start, launches,
                  schema_file, data_file, rows, tables, bins >>

\* try: validate_time, _ = measure_time(validate, ...) except Exception: -1
\* and the return of benchmark_python_linkml
PyValidate(p) ==
  /\ pc[p] = "py_view_done"
  /\ \E start \in Clock, end \in Clock, raises \in BOOLEAN :
       LET m == measure_time(start, end, raises) IN
       /\ mt' = [mt EXCEPT ![p] = IF m.raised THEN "raised" ELSE "returned"]
       /\ py_results' = [py_results EXCEPT ![p] =
             Put(@, "validate_ms", IF m.raised THEN -1 ELSE m.ms)]
  /\ pc' = [pc EXCEPT ![p] = "rs_open_schema"]
  /\ UNCHANGED << wl, rs_results, cli_path, outcome, sub_read, rs_start, launches,
                  schema_file, data_file, rows, tables, fault, bins >>

\* results = {}; open(schema_file, 'w')
RsOpenSchema(p) ==
  /\ pc[p] = "rs_open_schema"
  /\ schema_file' = Truncate(schema_file, p)
  /\ rs_results' = [rs_results EXCEPT ![p] = EmptyDict]
  /\ pc' = [pc EXCEPT ![p] = "rs_write_schema"]
  /\ UNCHANGED << wl, py_results, cli_path, outcome, sub_read, rs_start, launches,
                  data_file, rows, tables, fault, mt, bins >>

\* f.write(schema_yaml) and the close of the with block
RsWriteSchema(p) ==
  /\ pc[p] = "rs_write_schema"
  /\ schema_file' = Flush(schema_file, p, wl[p])
  /\ pc' = [pc EXCEPT ![p] = "rs_open_data"]
  /\ UNCHANGED << wl, py_results, rs_results, cli_path, outcome, sub_read, rs_start,
                  launches, data_file, rows, tables, fault, mt, bins >>

\* open(data_file, 'w')
RsOpenData(p) ==
  /\ pc[p] = "rs_open_data"
  /\ data_file' = Truncate(data_file, p)
  /\ pc' = [pc EXCEPT ![p] = "rs_write_data"]
  /\ UNCHANGED << wl, py_results, rs_results, cli_path, outcome, sub_read, rs_start,
                  launches, schema_file, rows, tables, fault, mt, bins >>

\* json.dump(data, f) and the close of the with block
RsWriteData(p) ==
  /\ pc[p] = "rs_write_data"
  /\ data_file' = Flush(data_file, p, wl[p])
  /\ pc' = [pc EXCEPT ![p] = "rs_find"]
  /\ UNCHANGED << wl, py_results, rs_results, cli_path, outcome, sub_read, rs_start,
                  launches, schema_file, rows, tables, fault, mt, bins >>

\* the lookup loop and the `if not cli_path: return {'error': ...}`
RsFindBinary(p) ==
  /\ pc[p] = "rs_find"
  /\ cli_path' = [cli_path EXCEPT ![p] = FindCli(bins)]
  /\ IF FindCli(bins) = "None"
       THEN /\ rs_results' = [rs_results EXCEPT ![p] =
                                 Put(EmptyDict, "error", ErrBinaryNotFound)]
            /\ pc' = [pc EXCEPT ![p] = "print"]
       ELSE /\ pc' = [pc EXCEPT ![p] = "rs_run"]
            /\ UNCHANGED rs_results
  /\ UNCHANGED << wl, py_results, outcome, sub_read, rs_start, launches, schema_file,
                  data_file, rows, tables, fault, mt, bins >>

\* start = time.time(); subprocess.run(...) starts the child.  A file that
\* exists but cannot be executed makes subprocess.run raise OSError, which
\* the try block does not catch.
RsRun(p) ==
  /\ pc[p] = "rs_run"
  /\ launches' = [launches EXCEPT ![p] = @ + 1]
  /\ \E t \in Clock : rs_start' = [rs_start EXCEPT ![p] = t]
  /\ IF bins[cli_path[p]] = "noexec"
       THEN /\ outcome' = [outcome EXCEPT ![p] = "oserror"]
            /\ Abort(p, "launch")
       ELSE /\ pc' = [pc EXCEPT ![p] = "rs_wait"]
            /\ UNCHANGED << outcome, fault >>
  /\ UNCHANGED << wl, py_results, rs_results, cli_path, sub_read, schema_file,
                  data_file, rows, tables, mt, bins >>

\* the child opens --schema while subprocess.run blocks
ChildReadSchema(p) ==
  /\ pc[p] = "rs_wait"
  /\ sub_read[p].schema = Unread
  /\ sub_read' = [sub_read EXCEPT ![p].schema = Seen(schema_file)]
  /\ UNCHANGED << pc, wl, py_results, rs_results, cli_path, outcome, launches,
                  rs_start, schema_file, data_file, rows, tables, fault, mt, bins >>

\* the child opens --data while subprocess.run blocks
ChildReadData(p) ==
  /\ pc[p] = "rs_wait"
  /\ sub_read[p].data = Unread
  /\ sub_read' = [sub_read EXCEPT ![p].data = Seen(data_file)]
  /\ UNCHANGED << pc, wl, py_results, rs_results, cli_path, outcome, launches,
                  rs_start, schema_file, data_file, rows, tables, fault, mt, bins >>

\* subprocess.run ends: the child exited (0 or not) or the 10 s timeout
\* expired.  With text=True the captured output of an exited child is
\* decoded, and undecodable bytes raise UnicodeDecodeError, which
\* `except subprocess.TimeoutExpired` does not catch.  The CLI is opaque:
\* it may end before reading a file, and its exit code is not tied to
\* what it read.
RsReturn(p) ==
  /\ pc[p] = "rs_wait"
  /\ \E oc \in {"exit0", "nonzero", "timeout"}, end \in Clock,
        decodable \in BOOLEAN :
       /\ oc = "timeout" => decodable
       /\ outcome' = [outcome EXCEPT ![p] = oc]
       /\ IF decodable
            THEN /\ rs_results' = [rs_results EXCEPT ![p] =
                       Put(@, "validate_ms", RsValidateMs(oc, rs_start[p], end))]
                 /\ pc' = [pc EXCEPT ![p] = "rs_unlink_schema"]
                 /\ UNCHANGED fault
            ELSE /\ Abort(p, "decode")
                 /\ UNCHANGED rs_results
  /\ rs_start' = [rs_start EXCEPT ![p] = 0]
  /\ UNCHANGED << wl, py_results, cli_path, sub_read, launches, schema_file,
                  data_file, rows, tables, mt, bins >>

\* os.unlink(schema_file): FileNotFoundError when the file is gone
RsUnlinkSchema(p) ==
  /\ pc[p] = "rs_unlink_schema"
  /\ IF schema_file = NoFile
       THEN /\ Abort(p, "unlink_schema")
            /\ UNCHANGED schema_file
       ELSE /\ schema_file' = NoFile
            /\ pc' = [pc EXCEPT ![p] = "rs_unlink_data"]
            /\ UNCHANGED fault
  /\ UNCHANGED << wl, py_results, rs_results, cli_path, outcome, sub_read, rs_start,
                  launches, data_file, rows, tables, mt, bins >>

\* os.unlink(data_file); return results
RsUnlinkData(p) ==
  /\ pc[p] = "rs_unlink_data"
  /\ IF data_file = NoFile
       THEN /\ Abort(p, "unlink_data")
            /\ UNCHANGED data_file
       ELSE /\ data_file' = NoFile
            /\ pc' = [pc EXCEPT ![p] = "print"]
            /\ UNCHANGED fault
  /\ UNCHANGED << wl, py_results, rs_results, cli_path, outcome, sub_read, rs_start,
                  launches, schema_file, rows, tables, mt, bins >>

\* print_comparison(name, python_results, rust_results)
PrintComparison(p) ==
  /\ pc[p] = "print"
  /\ rows' = [rows EXCEPT ![p] = PrintRows(1, py_results[p], rs_results[p])]
  /\ tables' = [tables EXCEPT ![p] = Append(@, wl[p])]
  /\ pc' = [pc EXCEPT ![p] = "next"]
  /\ UNCHANGED << wl, py_results, rs_results, cli_path, outcome, sub_read, rs_start,
                  launches, schema_file, data_file, fault, mt, bins >>

\* main, after the simple table: "Running medium schema benchmark..."
\* py_simple, rs_simple and the printed rows are not used again
MainMedium(p) ==
  /\ pc[p] = "next"
  /\ wl[p] = 1
  /\ wl' = [wl EXCEPT ![p] = 2]
  /\ pc' = [pc EXCEPT ![p] = "py_parse"]
  /\ py_results' = [py_results EXCEPT ![p] = EmptyDict]
  /\ rs_results' = [rs_results EXCEPT ![p] = EmptyDict]
  /\ rows' = [rows EXCEPT ![p] = <<>>]
  /\ outcome' = [outcome EXCEPT ![p] = "none"]
  /\ sub_read' = [sub_read EXCEPT ![p] = NoRead]
  /\ rs_start' = [rs_start EXCEPT ![p] = 0]
  /\ launches' = [launches EXCEPT ![p] = 0]
  /\ cli_path' = [cli_path EXCEPT ![p] = "None"]
  /\ mt' = [mt EXCEPT ![p] = "none"]
  /\ UNCHANGED << schema_file, data_file, tables, fault, bins >>

\* main, after the medium table: the summary lines
MainSummary(p) ==
  /\ pc[p] = "next"
  /\ wl[p] = 2
  /\ pc' = [pc EXCEPT ![p] = "done"]
  /\ UNCHANGED << wl, py_results, rs_results, cli_path, outcome, sub_read, rs_start,
                  launches, schema_file, data_file, rows, tables, fault, mt,
                  bins >>

Next ==
  \/ PyParse(MainProc)
  \/ PySchemaView(MainProc)
  \/ PyValidate(MainProc)
  \/ RsOpenSchema(MainProc)
  \/ RsWriteSchema(MainProc)
  \/ RsOpenData(MainProc)
  \/ RsWriteData(MainProc)
  \/ RsFindBinary(MainProc)
  \/ RsRun(MainProc)
  \/ ChildReadSchema(MainProc)
  \/ ChildReadData(MainProc)
  \/ RsReturn(MainProc)
  \/ RsUnlinkSchema(MainProc)
  \/ RsUnlinkData(MainProc)
  \/ PrintComparison(MainProc)
  \/ MainMedium(MainProc)
  \/ MainSummary(MainProc)

Spec == Init /\ [][Next]_vars

\* ------------------------------------------- print_comparison on its own

\* the dicts the two adapters can return, over the durations DurVals
PyDicts ==
  {[k \in {"parse_ms", "schema_view_ms", "validate_ms"} |->
      IF k = "parse_ms" THEN a ELSE IF k = "schema_view_ms" THEN b ELSE c] :
     a \in DurVals, b \in DurVals, c \in DurVals}

RsDicts ==
  {Put(EmptyDict, "validate_ms", d) : d \in DurVals}
    \cup {Put(EmptyDict, "error", ErrBinaryNotFound)}

InitCmp ==
  /\ InitCommon
  /\ pc = [p \in Procs |-> IF p = MainProc THEN "print" ELSE "idle"]
  /\ wl = [p \in Procs |-> 1]
  /\ \E d \in PyDicts : py_results = [p \in Procs |-> d]
  /\ \E d \in RsDicts : rs_results = [p \in Procs |-> d]
  /\ schema_file = NoFile
  /\ data_file = NoFile
  /\ bins = [q \in PathSet |-> "absent"]

NextCmp == PrintComparison(MainProc)

SpecCmp == InitCmp /\ [][NextCmp]_vars

\* ------------------------------------------- the binary lookup on its own

InitFind ==
  /\ InitCommon
  /\ pc = [p \in Procs |-> IF p = MainProc THEN "rs_find" ELSE "idle"]
  /\ wl = [p \in Procs |-> 1]
  /\ py_results = [p \in Procs |-> EmptyDict]
  /\ rs_results = [p \in Procs |-> EmptyDict]
  /\ schema_file = [writer |-> MainProc, content |-> Content(1), open_by |-> {}]
  /\ data_file = [writer |-> MainProc, content |-> Content(1), open_by |-> {}]
  /\ bins \in [PathSet -> Status]

NextFind == RsFindBinary(MainProc)

SpecFind == InitFind /\ [][NextFind]_vars

\* ------------------- two invocations of benchmark_rust_linkml interleaved

\* build trees where only the first candidate may be present
BinsFirst ==
  {b \in BinsSingle : \A q \in PathSet \ {CandidatePaths[1]} : b[q] = "absent"}

InitConc ==
  /\ InitCommon
  /\ pc = [p \in Procs |-> "rs_open_schema"]
  /\ wl \in [Procs -> Workloads]
  /\ py_results = [p \in Procs |-> EmptyDict]
  /\ rs_results = [p \in Procs |-> EmptyDict]
  /\ schema_file = NoFile
  /\ data_file = NoFile
  /\ bins \in BinsFirst

NextConc ==
  \E p \in Procs :
    \/ RsOpenSchema(p)
    \/ RsWriteSchema(p)
    \/ RsOpenData(p)
    \/ RsWriteData(p)
    \/ RsFindBinary(p)
    \/ RsRun(p)
    \/ ChildReadSchema(p)
    \/ ChildReadData(p)
    \/ RsReturn(p)
    \/ RsUnlinkSchema(p)
    \/ RsUnlinkData(p)

SpecConc == InitConc /\ [][NextConc]_vars

\* ------------------------------------------------------------- claims

InRust == {"rs_write_schema", "rs_open_data", "rs_write_data", "rs_find", "rs_run", "rs_wait", "rs_unlink_schema",
           "rs_unlink_data"}
Terminal == {"done", "aborted"}
RustFaults == {"launch", "decode", "unlink_schema", "unlink_data"}
MetricKeys == {metrics[i] : i \in 1..Len(metrics)}
RowsFor(p, key) == {rows[p][i] : i \in {j \in 1..Len(rows[p]) : rows[p][j].key = key}}
OwnFile(p) == [writer |-> p, content |-> Content(wl[p])]

\* C1: every call of measure_time returns to its caller (with a duration and
\* a failure outcome when the operation faulted); no fault raised by the
\* measured operation leaves measure_time.
C1_NoFaultLeavesMeasureTime ==
  \A p \in Procs : mt[p] # "raised"

\* C2: whatever the stage outcomes, a run of main ends having processed
\* both workloads, simple then medium, printed a comparison for each and
\* reached the summary; no stage failure aborts the run.
C2_RunReachesSummary ==
  pc[MainProc] \in Terminal =>
    /\ pc[MainProc] = "done"
    /\ tables[MainProc] = << 1, 2 >>

\* C3: whenever benchmark_rust_linkml is not running - it has returned or a
\* fault has left it - neither temporary file exists.
C3_NoTempFileLeft ==
  pc[MainProc] \notin InRust =>
    /\ schema_file = NoFile
    /\ data_file = NoFile

\* C4: print_comparison prints exactly one row for each of the three
\* metrics, in order, also when neither side has a duration for it.
C4_OneRowPerStage ==
  pc[MainProc] \in {"next", "done"} =>
    /\ Len(rows[MainProc]) = Len(metrics)
    /\ \A i \in 1..Len(metrics) : rows[MainProc][i].key = metrics[i]

\* C5: for every metric and every pair of recorded durations,
\* print_comparison reports a speedup iff both are positive, and it then
\* equals python/rust; with only the python duration positive the row shows
\* it and N/A for rust; with only the rust duration positive the row shows
\* it and N/A for python.
C5_SpeedupIffBothPositive ==
  pc[MainProc] = "next" =>
    \A key \in MetricKeys :
      LET py == Get(py_results[MainProc], key)
          rs == Get(rs_results[MainProc], key)
          rws == RowsFor(MainProc, key)
      IN  /\ (\E r \in rws : r.speedup # <<>>) <=> (py > 0 /\ rs > 0)
          /\ (py > 0 /\ rs > 0) =>
               /\ Cardinality(rws) = 1
               /\ \A r \in rws :
                    /\ r.python = <<py>>
                    /\ r.rust = <<rs>>
                    /\ r.speedup[2] > 0
                    /\ r.speedup[1] * rs = r.speedup[2] * py
          /\ (py > 0 /\ ~(rs > 0)) =>
               rws = {[key |-> key, python |-> <<py>>, rust |-> <<>>,
                       speedup |-> <<>>]}
          /\ (rs > 0 /\ ~(py > 0)) =>
               rws = {[key |-> key, python |-> <<>>, rust |-> <<rs>>,
                       speedup |-> <<>>]}

\* print_comparison has printed the validate row of (10, 2) with speedup 5
C5_Witness ==
  /\ pc[MainProc] = "next"
  /\ py_results[MainProc]["validate_ms"] = 10
  /\ Get(rs_results[MainProc], "validate_ms") = 2
  /\ Get(py_results[MainProc], "parse_ms") = 5
  /\ \E r \in RowsFor(MainProc, "validate_ms") : r.speedup = << 5, 1 >>
  /\ \E r \in RowsFor(MainProc, "parse_ms") : r.python = <<5>> /\ r.rust = <<>>

\* C6: with the binary at none of the candidate paths, benchmark_rust_linkml
\* returns without raising a result with no available stage, no subprocess
\* is launched, every printed row shows N/A for rust, and main still
\* completes both workloads and the summary.
C6_BinaryNotFoundRunCompletes ==
  FindCli(bins) = "None" =>
    /\ launches[MainProc] = 0
    /\ fault[MainProc] \notin RustFaults
    /\ pc[MainProc] \in {"print", "next", "done"} =>
         \A key \in MetricKeys : Get(rs_results[MainProc], key) = -1
    /\ \A i \in 1..Len(rows[MainProc]) : rows[MainProc][i].rust = <<>>
    /\ (Len(tables[MainProc]) >= 1 /\ pc[MainProc] \in Terminal) =>
         /\ pc[MainProc] = "done"
         /\ tables[MainProc] = << 1, 2 >>

\* C7: once the subprocess has exited non-zero or timed out, validate_ms is
\* recorded as the sentinel -1, no exception has left the adapter and the
\* subprocess was launched once; a validate_ms other than -1 is recorded
\* only after exit 0.
C7_FailedRunRecordsSentinel ==
  /\ outcome[MainProc] \in {"nonzero", "timeout"} =>
       /\ "validate_ms" \in DOMAIN rs_results[MainProc]
       /\ rs_results[MainProc]["validate_ms"] = -1
       /\ fault[MainProc] = "none"
       /\ launches[MainProc] = 1
  /\ Get(rs_results[MainProc], "validate_ms") # -1 => outcome[MainProc] = "exit0"

\* C8: under any interleaving of two invocations, the files an invocation's
\* subprocess reads are the ones that invocation wrote, they are still its
\* own when it launches, and no cleanup fails because another invocation
\* removed the file.
C8_NoPathCollision ==
  \A p \in Procs :
    /\ pc[p] \in {"rs_find", "rs_run"} =>
         (Seen(schema_file) = OwnFile(p) /\ Seen(data_file) = OwnFile(p))
    /\ sub_read[p].schema \in {Unread, OwnFile(p)}
    /\ sub_read[p].data \in {Unread, OwnFile(p)}
    /\ fault[p] \notin {"unlink_schema", "unlink_data"}

\* C9: every duration stored in an adapter result is non-negative or exactly
\* the sentinel -1, whatever the clock returned.
C9_DurationsNonNegativeOrSentinel ==
  /\ \A key \in MetricKeys \cap DOMAIN py_results[MainProc] :
       py_results[MainProc][key] >= 0 \/ py_results[MainProc][key] = -1
  /\ \A key \in MetricKeys \cap DOMAIN rs_results[MainProc] :
       rs_results[MainProc][key] >= 0 \/ rs_results[MainProc][key] = -1

\* C10: the lookup selects the first candidate, in list order, that exists
\* and is executable; one that exists but is not executable is skipped.
C10_FirstExecutableWins ==
  pc[MainProc] # "rs_find" =>
    LET ok == {i \in 1..Len(CandidatePaths) : bins[CandidatePaths[i]] = "exec"}
    IN  cli_path[MainProc] =
          IF ok = {} THEN "None" ELSE CandidatePaths[Min(ok)]

====
